---- MODULE Spec2Model ----
(***************************************************************************)
(* cs_instancegroup: present/absent reconciliation of a CloudStack         *)
(* instance group (src/cloud/cloudstack/cs_instancegroup.py).              *)
(*                                                                         *)
(* One invocation of the module is one run of main(): it looks the group   *)
(* up with listInstanceGroups, then issues createInstanceGroup or          *)
(* deleteInstanceGroup when the state differs from the desired one, then   *)
(* projects the descriptor into the result.  Several invocations may run   *)
(* at the same time against the same store (independent plays), each step  *)
(* between two remote calls being atomic.                                  *)
(*                                                                         *)
(* Representation.  Python None and the empty dict are both the empty      *)
(* function (the module only ever tests them for truth).  A dict is a      *)
(* function whose DOMAIN is its key set.  Group ids are the naturals the   *)
(* store issues, group names are naturals from Names or ids issued         *)
(* earlier (the name parameter may carry an id).  An absent scope option   *)
(* is Null.  A message is the sequence of its parts.                       *)
(***************************************************************************)
EXTENDS Integers, Sequences, FiniteSets, TLC

\* ---------------------------------------------------------------- bounds
MaxRuns == 4        \* invocations started in one behaviour
MaxLookups == 2     \* calls of get_instance_group() in one invocation

Procs == {1, 2}     \* plays that invoke the module, possibly at the same time
Names == {101}      \* the group name the plays ask for
ErrTexts == {"quota exceeded"}
Null == "null"
None == <<>>

VARIABLES
    store,          \* the remote store: sequence of [args, group], listing order
    nextId,         \* next id the store issues
    runs,           \* invocations started so far
    has_lib_cs,     \* the import of the cs library succeeded
    pc,             \* per invocation: position in main()
    params,         \* module.params and module.check_mode
    instance_group, \* self.instance_group
    result,         \* self.result
    returned,       \* the local instance_group of main()
    out,            \* what exit_json / fail_json emitted
    calls,          \* remote calls issued by the invocation, in order
    listing,        \* the entries listInstanceGroups answered
    resp,           \* the response of the mutating call
    interf,         \* another invocation changed the store since the lookup
    clean,          \* no other invocation changed the store between the
                    \* previous lookup of this process and this one
    prev,           \* summary of the previous invocation of this process
    lookups         \* calls of get_instance_group in this invocation: how
                    \* many, and what the first one returned

vars == <<store, nextId, runs, has_lib_cs, pc, params, instance_group, result,
          returned, out, calls, listing, resp, interf, clean, prev, lookups>>

\* ------------------------------------------------------------ dictionaries
Truthy(d) == DOMAIN d # {}

SetItem(d, k, v) == [x \in DOMAIN d \cup {k} |-> IF x = k THEN v ELSE d[x]]

\* ---------------------------------------------------------- scope resolver
\* the scope options the plays pass
Scopes == { [account |-> "admin", domain |-> "ROOT", project |-> Null] }

get_account(p) == p.account

get_domain(p) == IF p.domain = Null THEN Null ELSE "ROOT-id"

get_project(p) == IF p.project = Null THEN Null ELSE "web-id"

ScopeArgs(p) ==
    [account |-> get_account(p), domainid |-> get_domain(p),
     projectid |-> get_project(p)]

\* ----------------------------------------------------------- remote store
\* The descriptor the store builds for a new group: id, name, created, and
\* the attributes of the scope the request names.
NewGroup(id, args) ==
    LET keys == {"id", "name", "created"}
                \cup (IF args.account = Null THEN {} ELSE {"account"})
                \cup (IF args.domainid = Null THEN {} ELSE {"domain", "domainid"})
                \cup (IF args.projectid = Null THEN {} ELSE {"project", "projectid"})
    IN [k \in keys |->
            CASE k = "id" -> id
              [] k = "name" -> args.name
              [] k = "created" -> 2015 + id
              [] k = "account" -> args.account
              [] k = "domain" -> "ROOT"
              [] k = "domainid" -> args.domainid
              [] k = "project" -> "web"
              [] k = "projectid" -> args.projectid]

\* listInstanceGroups(**args): the groups of the scope, in store order; the
\* response is the empty dict when there is none.
listInstanceGroups(st, args) ==
    LET sel == SelectSeq(st, LAMBDA e : e.args = args)
        grp == [i \in 1..Len(sel) |-> sel[i].group]
    IN IF grp = <<>> THEN None ELSE [count |-> Len(grp), instancegroup |-> grp]

\* the store after an accepted createInstanceGroup
StoreCreate(st, id, args) ==
    Append(st, [args |-> [account |-> args.account, domainid |-> args.domainid,
                          projectid |-> args.projectid],
                group |-> NewGroup(id, args)])

\* the store after an accepted deleteInstanceGroup(id)
StoreDelete(st, id) == SelectSeq(st, LAMBDA e : e.group["id"] # id)

\* What the store holds before the first invocation: a group of the same
\* name in another account, and a group of another name in the plays' scope.
Background ==
    StoreCreate(
        StoreCreate(<<>>, 1, [name |-> 101, account |-> "guest",
                              domainid |-> "ROOT-id", projectid |-> Null]),
        2, [name |-> 102, account |-> "admin",
            domainid |-> "ROOT-id", projectid |-> Null])

FirstId == Len(Background) + 1

\* ------------------------------------------------------------- the module
RECURSIVE ScanGroups_IdOnly(_, _, _)
ScanGroups_IdOnly(groups, name, i) ==
    IF i > Len(groups) THEN None
    ELSE IF name \in {groups[i]["id"]} THEN groups[i]
    ELSE ScanGroups_IdOnly(groups, name, i + 1)

RECURSIVE ScanGroups_NoBreak(_, _, _)
ScanGroups_NoBreak(groups, name, i) ==
    IF i > Len(groups) THEN None
    ELSE LET rest == ScanGroups_NoBreak(groups, name, i + 1)
         IN IF DOMAIN rest # {} THEN rest
            ELSE IF name \in {groups[i]["name"], groups[i]["id"]} THEN groups[i]
            ELSE None

\* lines 134-139: the scan of the response
RECURSIVE ScanGroups(_, _, _)
ScanGroups(groups, name, i) ==
    IF i > Len(groups) THEN None
    ELSE IF name \in {groups[i]["name"], groups[i]["id"]} THEN groups[i]
    ELSE ScanGroups(groups, name, i + 1)

get_instance_group_NotKept(cached, name, instance_groups) == cached

get_instance_group(cached, name, instance_groups) ==
    IF Truthy(cached) THEN cached
    ELSE IF Truthy(instance_groups)
         THEN ScanGroups(instance_groups["instancegroup"], name, 1)
         ELSE cached

CopyKey_Always(res, g, k) ==
    SetItem(res, k, IF k \in DOMAIN g THEN g[k] ELSE Null)

CopyKey(res, g, k) == IF k \in DOMAIN g THEN SetItem(res, k, g[k]) ELSE res

get_result_Defaults(res, g) ==
    LET Put(r, k) == SetItem(r, k, IF k \in DOMAIN g THEN g[k] ELSE Null)
    IN Put(Put(Put(Put(Put(Put(res, "id"), "created"), "name"), "project"),
               "domain"), "account")

get_result(res, g) ==
    IF Truthy(g)
    THEN LET r1 == CopyKey(res, g, "id")
             r2 == CopyKey(r1, g, "created")
             r3 == CopyKey(r2, g, "name")
             r4 == CopyKey(r3, g, "project")
             r5 == CopyKey(r4, g, "domain")
             r6 == CopyKey(r5, g, "account")
         IN r6
    ELSE res

Differs_PresentAlways(state, g) ==
    IF state \in {"absent"} THEN DOMAIN g # {} ELSE TRUE

\* lines 216 with 144 and 163: the state found differs from the desired one
Differs(state, g) == IF state \in {"absent"} THEN Truthy(g) ELSE ~Truthy(g)

create_args_NoAccount(p) ==
    [name |-> p.name, account |-> Null, domainid |-> get_domain(p),
     projectid |-> get_project(p)]

\* lines 147-151: the arguments of createInstanceGroup
create_args(p) ==
    [name |-> p.name, account |-> get_account(p), domainid |-> get_domain(p),
     projectid |-> get_project(p)]

delete_args_ByName(g) == [id |-> g["name"]]

\* line 166: the arguments of deleteInstanceGroup
delete_args(g) == [id |-> g["id"]]

MustCall_Never(differs, check_mode) == FALSE

MustCall_IgnoreCheck(differs, check_mode) == differs

\* lines 153 and 165
MustCall(differs, check_mode) == differs /\ ~check_mode

Issue_Twice(log, call) == Append(Append(log, call), call)

\* lines 133, 154, 166: one blocking call of the client
Issue(log, call) == Append(log, call)

HasError_Never(res) == FALSE

\* lines 155 and 167
HasError(res) == "errortext" \in DOMAIN res

\* lines 156 and 168
FailMsg(res) == <<"Failed: '", res["errortext"], "'">>

\* lines 224 and 227
ExceptionMsg(kind, e) == <<kind, ": ", e>>

\* line 158 after 157
present_return(res) == res["instancegroup"]

absent_return_None(g, res) == <<>>

\* line 169
absent_return(g, res) == g

LibMissing_Never(lib) == FALSE

\* line 209: the test of the import flag
LibMissing(lib) == ~lib

MutatingApi_Swapped(state) ==
    IF state \in {"absent"} THEN "createInstanceGroup"
    ELSE "deleteInstanceGroup"

\* lines 216-219: state=absent leads to the delete call, state=present to
\* the create call
MutatingApi(state) ==
    IF state \in {"absent"} THEN "deleteInstanceGroup"
    ELSE "createInstanceGroup"

fail_json(msg) == [failed |-> TRUE, msg |-> msg]

exit_json(res) == res

\* ------------------------------------------------------------------- init
Init ==
    /\ store = Background
    /\ nextId = FirstId
    /\ runs = 0
    /\ has_lib_cs \in BOOLEAN
    /\ pc = [p \in Procs |-> "idle"]
    /\ params = [p \in Procs |-> None]
    /\ instance_group = [p \in Procs |-> None]
    /\ result = [p \in Procs |-> None]
    /\ returned = [p \in Procs |-> None]
    /\ out = [p \in Procs |-> None]
    /\ calls = [p \in Procs |-> <<>>]
    /\ listing = [p \in Procs |-> <<>>]
    /\ resp = [p \in Procs |-> None]
    /\ interf = [p \in Procs |-> FALSE]
    /\ clean = [p \in Procs |-> FALSE]
    /\ prev = [p \in Procs |-> None]
    /\ lookups = [p \in Procs |-> [n |-> 0, first |-> None]]

\* ---------------------------------------------------------------- actions
Terminal == {"UNCHANGED", "WOULD_CHANGE", "SUCCEEDED", "FAILED"}

Raises == {"CloudStackException", "Exception"}

\* the positions of the entries of a listing that carry x as name or as id
Matches(groups, x) ==
    {i \in 1..Len(groups) : groups[i]["name"] = x \/ groups[i]["id"] = x}

\* what is kept of an invocation when the same process starts the next one
Summary(p) ==
    [state |-> params[p].state, check_mode |-> params[p].check_mode,
     pc |-> pc[p], found |-> instance_group[p], returned |-> returned[p],
     result |-> result[p],
     matches |-> Cardinality(Matches(listing[p], params[p].name))]

SameTarget(p, name, scope) ==
    /\ pc[p] \in {"UNCHANGED", "WOULD_CHANGE", "SUCCEEDED"}
    /\ params[p].name = name
    /\ params[p].account = scope.account
    /\ params[p].domain = scope.domain
    /\ params[p].project = scope.project

\* every other play has seen the store change under it
Disturb(p, changed) ==
    [q \in Procs |->
        IF q # p /\ changed /\ pc[q] # "idle" THEN TRUE ELSE interf[q]]

\* main(), lines 189-213: a fresh invocation; the library check and the
\* construction of the reconciler (self.instance_group = None).
Main(p, name, state, check_mode, scope) ==
    /\ pc[p] \in Terminal \cup {"idle"}
    /\ runs < MaxRuns
    /\ runs' = runs + 1
    /\ prev' = [prev EXCEPT ![p] =
                  IF SameTarget(p, name, scope) THEN Summary(p) ELSE None]
    /\ params' = [params EXCEPT ![p] =
                    [name |-> name, state |-> state, check_mode |-> check_mode,
                     account |-> scope.account, domain |-> scope.domain,
                     project |-> scope.project]]
    /\ calls' = [calls EXCEPT ![p] = <<>>]
    /\ listing' = [listing EXCEPT ![p] = <<>>]
    /\ resp' = [resp EXCEPT ![p] = None]
    /\ returned' = [returned EXCEPT ![p] = None]
    /\ instance_group' = [instance_group EXCEPT ![p] = None]
    /\ IF LibMissing(has_lib_cs)
       THEN /\ pc' = [pc EXCEPT ![p] = "FAILED"]
            /\ result' = [result EXCEPT ![p] = None]
            /\ out' = [out EXCEPT ![p] =
                         fail_json(<<"python library cs required: pip install cs">>)]
       ELSE /\ pc' = [pc EXCEPT ![p] = "START"]
            /\ result' = [result EXCEPT ![p] = [changed |-> FALSE]]
            /\ out' = [out EXCEPT ![p] = None]
    /\ clean' = [clean EXCEPT ![p] = FALSE]
    /\ lookups' = [lookups EXCEPT ![p] = [n |-> 0, first |-> None]]
    /\ UNCHANGED <<store, nextId, has_lib_cs, interf>>

\* get_instance_group(), lines 122-139, called from line 143 or 162; an
\* exception of the client ends in lines 223-227.
Lookup(p, r) ==
    /\ pc[p] = "START"
    /\ calls' = [calls EXCEPT ![p] =
                   Issue(@, [api |-> "listInstanceGroups",
                             args |-> ScopeArgs(params[p])])]
    /\ clean' = [clean EXCEPT ![p] = ~interf[p]]
    /\ interf' = [interf EXCEPT ![p] = FALSE]
    /\ IF r = "ok"
       THEN LET instance_groups == listInstanceGroups(store, ScopeArgs(params[p]))
            IN /\ listing' = [listing EXCEPT ![p] =
                                IF Truthy(instance_groups)
                                THEN instance_groups["instancegroup"] ELSE <<>>]
               /\ instance_group' = [instance_group EXCEPT ![p] =
                      get_instance_group(@, params[p].name, instance_groups)]
               /\ lookups' = [lookups EXCEPT ![p] =
                      [n |-> 1,
                       first |-> get_instance_group(instance_group[p],
                                     params[p].name, instance_groups)]]
               /\ pc' = [pc EXCEPT ![p] = "LOOKED_UP"]
               /\ out' = out
       ELSE /\ pc' = [pc EXCEPT ![p] = "FAILED"]
            /\ out' = [out EXCEPT ![p] = fail_json(ExceptionMsg(r, "timeout"))]
            /\ UNCHANGED <<listing, instance_group, lookups>>
    /\ UNCHANGED <<store, nextId, runs, has_lib_cs, params, result, returned,
                   resp, prev>>

\* lines 144-153 and 163-165, then 221 and 229 when no call is to be made:
\* the comparison of the state found with the desired state.
Decide(p) ==
    /\ pc[p] = "LOOKED_UP"
    /\ LET g == instance_group[p]
           absent == params[p].state \in {"absent"}
           differs == Differs(params[p].state, g)
           res == IF differs THEN SetItem(result[p], "changed", TRUE)
                  ELSE result[p]
           call == [api |-> MutatingApi(params[p].state),
                    args |-> IF absent THEN delete_args(g)
                             ELSE create_args(params[p])]
       IN IF MustCall(differs, params[p].check_mode)
          THEN /\ calls' = [calls EXCEPT ![p] = Issue(@, call)]
               /\ result' = [result EXCEPT ![p] = res]
               /\ pc' = [pc EXCEPT ![p] = "MUTATING"]
               /\ UNCHANGED <<returned, out>>
          ELSE /\ returned' = [returned EXCEPT ![p] = g]
               /\ result' = [result EXCEPT ![p] = get_result(res, g)]
               /\ out' = [out EXCEPT ![p] = exit_json(get_result(res, g))]
               /\ pc' = [pc EXCEPT ![p] =
                           IF differs THEN "WOULD_CHANGE" ELSE "UNCHANGED"]
               /\ calls' = calls
    /\ UNCHANGED <<store, nextId, runs, has_lib_cs, params, instance_group,
                   listing, resp, interf, clean, prev, lookups>>

\* lines 154-158 and 166-169, then 221-229: the answer of the mutating call.
\* r is what the store does with the request: it accepts it ("ok"), answers
\* an error text, or the client raises.
Mutate(p, r, e) ==
    /\ pc[p] = "MUTATING"
    /\ LET absent == params[p].state \in {"absent"}
           g == instance_group[p]
           args == calls[p][Len(calls[p])].args
           res == IF r = "errortext" THEN [errortext |-> e]
                  ELSE IF absent THEN [success |-> "true"]
                  ELSE [instancegroup |-> NewGroup(nextId, args)]
           ret == IF absent THEN absent_return(g, res) ELSE present_return(res)
       IN /\ store' = IF r # "ok" THEN store
                      ELSE IF absent THEN StoreDelete(store, args.id)
                      ELSE StoreCreate(store, nextId, args)
          /\ nextId' = IF r = "ok" /\ ~absent THEN nextId + 1 ELSE nextId
          /\ interf' = Disturb(p, store' # store)
          /\ IF r \in Raises
             THEN /\ pc' = [pc EXCEPT ![p] = "FAILED"]
                  /\ out' = [out EXCEPT ![p] =
                               fail_json(ExceptionMsg(r, "timeout"))]
                  /\ UNCHANGED <<resp, returned, result>>
             ELSE /\ resp' = [resp EXCEPT ![p] = res]
                  /\ IF HasError(res)
                     THEN /\ pc' = [pc EXCEPT ![p] = "FAILED"]
                          /\ out' = [out EXCEPT ![p] = fail_json(FailMsg(res))]
                          /\ UNCHANGED <<returned, result>>
                     ELSE IF ~absent /\ "instancegroup" \notin DOMAIN res
                     THEN \* KeyError at line 157, caught at line 226
                          /\ pc' = [pc EXCEPT ![p] = "FAILED"]
                          /\ out' = [out EXCEPT ![p] =
                                 fail_json(ExceptionMsg("Exception",
                                                        "'instancegroup'"))]
                          /\ UNCHANGED <<returned, result>>
                     ELSE /\ returned' = [returned EXCEPT ![p] = ret]
                          /\ result' = [result EXCEPT ![p] = get_result(@, ret)]
                          /\ out' = [out EXCEPT ![p] =
                                       exit_json(get_result(result[p], ret))]
                          /\ pc' = [pc EXCEPT ![p] = "SUCCEEDED"]
    /\ UNCHANGED <<runs, has_lib_cs, params, instance_group, calls, listing,
                   clean, prev, lookups>>

\* the ids the store has issued to the plays: a play may pass one of them as
\* the name, also after the group is gone
IssuedIds == FirstId..(nextId - 1)

\* What the client does with a call: the listing is answered or fails with
\* an API error; a mutating call is accepted, answered with an error text,
\* or fails with another exception.

Next ==
    \E p \in Procs :
        \/ \E name \in Names \cup IssuedIds, state \in {"present", "absent"},
              check_mode \in BOOLEAN, scope \in Scopes :
                Main(p, name, state, check_mode, scope)
        \/ \E r \in {"ok", "CloudStackException"} : Lookup(p, r)
        \/ Decide(p)
        \/ \E r \in {"ok", "errortext", "Exception"}, e \in ErrTexts :
                Mutate(p, r, e)

Spec == Init /\ [][Next]_vars

TypeOK ==
    /\ runs \in 0..MaxRuns
    /\ nextId \in FirstId..(FirstId + runs)
    /\ \A p \in Procs : pc[p] \in Terminal \cup {"idle", "START", "LOOKED_UP", "MUTATING"}

\* A further call of get_instance_group() on the same object, lines 122-139.
\* main() calls the method once; this is a caller that calls it again before
\* it acts on the result.  Line 123 answers from self.instance_group when it
\* is true and queries the store otherwise.
GetAgain(p) ==
    /\ pc[p] = "LOOKED_UP"
    /\ lookups[p].n < MaxLookups
    /\ LET query == ~Truthy(instance_group[p])
           instance_groups ==
               IF query THEN listInstanceGroups(store, ScopeArgs(params[p]))
               ELSE None
       IN /\ calls' = [calls EXCEPT ![p] =
                         IF query
                         THEN Issue(@, [api |-> "listInstanceGroups",
                                        args |-> ScopeArgs(params[p])])
                         ELSE @]
          /\ listing' = [listing EXCEPT ![p] =
                           IF query /\ Truthy(instance_groups)
                           THEN instance_groups["instancegroup"]
                           ELSE IF query THEN <<>> ELSE @]
          /\ instance_group' = [instance_group EXCEPT ![p] =
                 get_instance_group(@, params[p].name, instance_groups)]
    /\ lookups' = [lookups EXCEPT ![p].n = @ + 1]
    /\ UNCHANGED <<store, nextId, runs, has_lib_cs, pc, params, result,
                   returned, out, resp, interf, clean, prev>>

\* the keys a group descriptor of the store may carry: the six that
\* get_result() copies and one it does not
DescriptorKeys ==
    {"id", "created", "name", "project", "domain", "account", "domainid"}

FieldValue(k) ==
    IF k = "id" THEN FirstId
    ELSE IF k = "name" THEN 101
    ELSE IF k = "created" THEN "2016-01-01"
    ELSE IF k = "project" THEN "web"
    ELSE IF k = "domain" THEN "ROOT"
    ELSE IF k = "account" THEN "admin"
    ELSE "d-1"

\* every descriptor over a subset of the keys; the empty one is None
Descriptors == {[k \in K |-> FieldValue(k)] : K \in SUBSET DescriptorKeys}

\* lines 215-219 have returned some descriptor to main() and set the change
\* flag; get_result() is about to be called
InitProject ==
    /\ store = Background
    /\ nextId = FirstId
    /\ runs = 0
    /\ has_lib_cs = TRUE
    /\ pc = [p \in Procs |-> "RETURNED"]
    /\ params = [p \in Procs |-> None]
    /\ instance_group = [p \in Procs |-> None]
    /\ \E b \in BOOLEAN : result = [p \in Procs |-> [changed |-> b]]
    /\ \E g \in Descriptors : returned = [p \in Procs |-> g]
    /\ out = [p \in Procs |-> None]
    /\ calls = [p \in Procs |-> <<>>]
    /\ listing = [p \in Procs |-> <<>>]
    /\ resp = [p \in Procs |-> None]
    /\ interf = [p \in Procs |-> FALSE]
    /\ clean = [p \in Procs |-> FALSE]
    /\ prev = [p \in Procs |-> None]
    /\ lookups = [p \in Procs |-> [n |-> 0, first |-> None]]

\* lines 221 and 229: the result is built from the descriptor and handed out
ProjectResult(p) ==
    /\ pc[p] = "RETURNED"
    /\ result' = [result EXCEPT ![p] = get_result(@, returned[p])]
    /\ out' = [out EXCEPT ![p] = exit_json(get_result(result[p], returned[p]))]
    /\ pc' = [pc EXCEPT ![p] =
                IF result[p]["changed"] THEN "SUCCEEDED" ELSE "UNCHANGED"]
    /\ UNCHANGED <<store, nextId, runs, has_lib_cs, params, instance_group,
                   returned, calls, listing, resp, interf, clean, prev, lookups>>

NextProject == \E p \in Procs : ProjectResult(p)

SpecProject == InitProject /\ [][NextProject]_vars

\* invocations that do not overlap: one starts only when no other is running
NextSeq ==
    \E p \in Procs :
        \/ /\ \A q \in Procs : pc[q] \in Terminal \cup {"idle"}
           /\ \E name \in Names \cup IssuedIds, state \in {"present", "absent"},
                 check_mode \in BOOLEAN, scope \in Scopes :
                   Main(p, name, state, check_mode, scope)
        \/ \E r \in {"ok", "CloudStackException"} : Lookup(p, r)
        \/ Decide(p)
        \/ \E r \in {"ok", "errortext", "Exception"}, e \in ErrTexts :
                Mutate(p, r, e)

SpecSeq == Init /\ [][NextSeq]_vars

NextCache == Next \/ \E p \in Procs : GetAgain(p)

\* main() with a caller that may call get_instance_group() more than once
SpecCache == Init /\ [][NextCache]_vars

\* ----------------------------------------------------------------- claims
Success == {"UNCHANGED", "WOULD_CHANGE", "SUCCEEDED"}

\* the lookup of the current invocation of p has returned
LookedUp(p) ==
    \/ pc[p] \in {"LOOKED_UP", "MUTATING"} \cup Success
    \/ pc[p] = "FAILED" /\ Len(calls[p]) = 2

\* p has completed two invocations in succession for the same name and
\* scope, both not in check mode and both with the given desired state, both
\* ending in success, and no other invocation changed the store from the
\* lookup of the first to the lookup of the second
TwiceInSuccession(p, state) ==
    /\ prev[p] # None
    /\ prev[p].state = state /\ ~prev[p].check_mode
    /\ prev[p].pc \in Success
    /\ params[p].state = state /\ ~params[p].check_mode
    /\ pc[p] \in Success
    /\ clean[p]

\* C1: when no group of the scope matches the name, two successive
\* successful runs of present_instance_group for the same scope and name,
\* not in check mode and with no other invocation changing the store in
\* between, report changed=true then changed=false, and the second run
\* returns the descriptor the first run created.
C1_PresentTwice ==
    \A p \in Procs :
        TwiceInSuccession(p, "present") /\ ~Truthy(prev[p].found)
        => /\ prev[p].result["changed"] = TRUE
           /\ result[p]["changed"] = FALSE
           /\ returned[p] = prev[p].returned

C1_Witness ==
    \E p \in Procs :
        /\ TwiceInSuccession(p, "present") /\ ~Truthy(prev[p].found)
        /\ prev[p].pc = "SUCCEEDED" /\ pc[p] = "UNCHANGED"
        /\ Truthy(returned[p])

\* C2 as stated: for every store in which the lookup finds a group, two
\* successive successful runs of absent_instance_group for the same scope
\* and name, not in check mode and undisturbed, report changed=true then
\* changed=false.
C2_AbsentTwice_AnyStore ==
    \A p \in Procs :
        TwiceInSuccession(p, "absent") /\ Truthy(prev[p].found)
        => /\ prev[p].result["changed"] = TRUE
           /\ result[p]["changed"] = FALSE

\* C2 amended: the same, for every store in which exactly one group of the
\* scope carries the name as its name or as its id.
C2_AbsentTwice ==
    \A p \in Procs :
        TwiceInSuccession(p, "absent") /\ Truthy(prev[p].found)
          /\ prev[p].matches = 1
        => /\ prev[p].result["changed"] = TRUE
           /\ result[p]["changed"] = FALSE

C2_Witness ==
    \E p \in Procs :
        /\ TwiceInSuccession(p, "absent") /\ Truthy(prev[p].found)
        /\ prev[p].matches = 1
        /\ prev[p].pc = "SUCCEEDED" /\ pc[p] = "UNCHANGED"

\* C3: an invocation in check mode never issues createInstanceGroup or
\* deleteInstanceGroup (it never waits for a mutating call, and its only
\* remote call is the listing), and when it ends in success it reports
\* changed = (present and no entry of the listing matches) or (absent and an
\* entry of the listing matches).
C3_CheckModeNoMutation ==
    \A p \in Procs :
        pc[p] # "idle" /\ params[p].check_mode
        => /\ pc[p] # "MUTATING"
           /\ \A i \in 1..Len(calls[p]) : calls[p][i].api = "listInstanceGroups"
           /\ pc[p] \in Success =>
                result[p]["changed"] =
                    IF params[p].state = "absent"
                    THEN Matches(listing[p], params[p].name) # {}
                    ELSE Matches(listing[p], params[p].name) = {}

C3_Witness ==
    \E p, q \in Procs :
        /\ pc[p] = "WOULD_CHANGE" /\ params[p].check_mode
        /\ params[p].state = "absent"
        /\ pc[q] = "WOULD_CHANGE" /\ params[q].check_mode
        /\ params[q].state = "present"

\* C4: the lookup returns the first entry of the listing, in listing order,
\* whose name or id equals the name parameter, and none iff no entry has
\* that name or id.
C4_LookupFirstMatch ==
    \A p \in Procs :
        LookedUp(p) =>
            LET M == Matches(listing[p], params[p].name)
            IN /\ (M = {}) <=> (instance_group[p] = None)
               /\ M # {} =>
                    \E i \in M : /\ \A j \in M : i <= j
                                 /\ instance_group[p] = listing[p][i]

\* a lookup by name with two matching entries behind a non-matching one, and
\* a lookup by id
C4_Witness ==
    \E p, q \in Procs :
        /\ LookedUp(p) /\ LookedUp(q)
        /\ Cardinality(Matches(listing[p], params[p].name)) = 2
        /\ 1 \notin Matches(listing[p], params[p].name)
        /\ Truthy(instance_group[q])
        /\ instance_group[q]["id"] = params[q].name
        /\ instance_group[q]["name"] # params[q].name

\* the groups a response of listInstanceGroups carries
GroupsOf(response) ==
    IF DOMAIN response = {} THEN <<>> ELSE response["instancegroup"]

\* a lookup with the scope and name of p on the store as it is now
MatchesNow(p) ==
    Matches(GroupsOf(listInstanceGroups(store, ScopeArgs(params[p]))),
            params[p].name)

\* the entries that matched the name when p looked the group up
MatchesThen(p) == Matches(listing[p], params[p].name)

FirstMatch(p) ==
    listing[p][CHOOSE i \in MatchesThen(p) : \A j \in MatchesThen(p) : i <= j]

ResultKeys == {"id", "created", "name", "project", "domain", "account"}

\* the output o carries exactly the result fields the descriptor g has
FieldsOf(o, g) ==
    \A k \in ResultKeys : /\ k \in DOMAIN o <=> k \in DOMAIN g
                          /\ k \in DOMAIN g => o[k] = g[k]

\* p has ended in success, not in check mode, and no other invocation has
\* changed the store since p looked the group up
EndedUndisturbed(p) ==
    pc[p] \in Success /\ ~params[p].check_mode /\ ~interf[p]

\* C5 as stated: after an undisturbed successful invocation not in check
\* mode, a lookup with the same scope and name finds a group when the state
\* was present and finds none when it was absent.
C5_Converged_AnyStore ==
    \A p \in Procs :
        EndedUndisturbed(p)
        => IF params[p].state = "absent" THEN MatchesNow(p) = {}
           ELSE MatchesNow(p) # {}

\* C5 amended: after state=present the lookup finds a group; after
\* state=absent the group that was found is gone, and the lookup finds none
\* provided at most one group of the scope matched the name when the
\* invocation looked it up.
C5_Converged ==
    \A p \in Procs :
        EndedUndisturbed(p)
        => IF params[p].state = "absent"
           THEN /\ Cardinality(MatchesThen(p)) <= 1 => MatchesNow(p) = {}
                /\ Truthy(instance_group[p]) =>
                     \A i \in 1..Len(store) :
                        store[i].group["id"] # instance_group[p]["id"]
           ELSE MatchesNow(p) # {}

C5_Witness ==
    \E p \in Procs :
        /\ EndedUndisturbed(p) /\ pc[p] = "SUCCEEDED"
        /\ params[p].state = "absent" /\ MatchesNow(p) = {}
        /\ prev[p] # None /\ prev[p].pc = "SUCCEEDED"
        /\ prev[p].state = "present"

Mutating == {"createInstanceGroup", "deleteInstanceGroup"}

\* C6: the remote calls of an invocation are the listing first, then at
\* most one createInstanceGroup or deleteInstanceGroup; an invocation waits
\* for a mutating call only after its lookup has returned.
C6_LookupThenOneCall ==
    \A p \in Procs :
        /\ Len(calls[p]) <= 2
        /\ \A i \in 1..Len(calls[p]) :
              IF i = 1 THEN calls[p][i].api = "listInstanceGroups"
              ELSE calls[p][i].api \in Mutating
        /\ pc[p] = "START" => calls[p] = <<>>
        /\ pc[p] = "MUTATING" => Len(calls[p]) = 2
        /\ Len(calls[p]) = 2 => LookedUp(p) /\ pc[p] # "LOOKED_UP"

C6_Witness ==
    \E p, q \in Procs :
        /\ pc[p] = "SUCCEEDED" /\ Len(calls[p]) = 2
        /\ calls[p][2].api = "createInstanceGroup"
        /\ pc[q] = "SUCCEEDED" /\ Len(calls[q]) = 2
        /\ calls[q][2].api = "deleteInstanceGroup"

\* the response of the mutating call of p carries an error text
GotErrorText(p) == DOMAIN resp[p] # {} /\ "errortext" \in DOMAIN resp[p]

\* C7: when the response of the create or delete call carries an error
\* text, the invocation ends in failure with a message that contains that
\* text, and emits neither changed nor any descriptor field.
C7_ErrorTextIsFatal ==
    \A p \in Procs :
        GotErrorText(p)
        => /\ pc[p] = "FAILED"
           /\ "failed" \in DOMAIN out[p] /\ out[p]["failed"] = TRUE
           /\ "msg" \in DOMAIN out[p]
           /\ \E i \in 1..Len(out[p]["msg"]) :
                 out[p]["msg"][i] = resp[p]["errortext"]
           /\ DOMAIN out[p] \cap (ResultKeys \cup {"changed"}) = {}

C7_Witness ==
    \E p, q \in Procs :
        /\ GotErrorText(p) /\ params[p].state = "present"
        /\ GotErrorText(q) /\ params[q].state = "absent"
        /\ pc[p] = "FAILED" /\ pc[q] = "FAILED"

\* p has looked the group up and has acted on what it found
Decided(p) == LookedUp(p) /\ pc[p] # "LOOKED_UP"

\* C8: when the state found already is the desired one the invocation is a
\* no-op: state=present with a matching group reports changed=false, issues
\* no call after the listing and emits the fields of the group found;
\* state=absent with no matching group reports changed=false, issues no
\* call after the listing and emits no descriptor field.
C8_NoOp ==
    \A p \in Procs :
        /\ Decided(p) /\ params[p].state = "present" /\ MatchesThen(p) # {}
           => /\ pc[p] = "UNCHANGED"
              /\ Len(calls[p]) = 1
              /\ out[p]["changed"] = FALSE
              /\ FieldsOf(out[p], FirstMatch(p))
        /\ Decided(p) /\ params[p].state = "absent" /\ MatchesThen(p) = {}
           => /\ pc[p] = "UNCHANGED"
              /\ Len(calls[p]) = 1
              /\ out[p] = [changed |-> FALSE]
              /\ returned[p] = None

C8_Witness ==
    \E p, q \in Procs :
        /\ pc[p] = "UNCHANGED" /\ params[p].state = "present"
        /\ MatchesThen(p) # {}
        /\ pc[q] = "UNCHANGED" /\ params[q].state = "absent"
        /\ MatchesThen(q) = {}

\* C9: when absent_instance_group finds a group and no error is signalled,
\* it returns the descriptor the lookup found together with changed=true, the
\* emitted fields being those of that descriptor; a check-mode run and a
\* live run that found the same descriptor return the same pair.
C9_AbsentReturnsSnapshot ==
    \A p \in Procs :
        params[p] # None /\ params[p].state = "absent" /\ pc[p] \in Success
          /\ MatchesThen(p) # {}
        => /\ returned[p] = FirstMatch(p)
           /\ out[p]["changed"] = TRUE
           /\ FieldsOf(out[p], FirstMatch(p))
           /\ ( /\ prev[p] # None /\ prev[p].state = "absent"
                /\ prev[p].pc \in Success
                /\ prev[p].check_mode # params[p].check_mode
                /\ prev[p].found = instance_group[p] )
              => /\ prev[p].returned = returned[p]
                 /\ prev[p].result = out[p]

C9_Witness ==
    \E p \in Procs :
        /\ params[p] # None /\ params[p].state = "absent"
        /\ pc[p] = "SUCCEEDED" /\ ~params[p].check_mode
        /\ prev[p] # None /\ prev[p].state = "absent"
        /\ prev[p].pc = "WOULD_CHANGE" /\ prev[p].check_mode
        /\ prev[p].found = instance_group[p]
        /\ Truthy(returned[p])

\* C10: in check mode with state=present and no matching group,
\* present_instance_group returns None and the invocation succeeds with the
\* result record changed=true and no descriptor field.
C10_CheckModeCreate ==
    \A p \in Procs :
        /\ Decided(p) /\ params[p].check_mode
        /\ params[p].state = "present" /\ MatchesThen(p) = {}
        => /\ pc[p] = "WOULD_CHANGE"
           /\ returned[p] = None
           /\ out[p] = [changed |-> TRUE]

C10_Witness ==
    \E p \in Procs :
        /\ pc[p] = "WOULD_CHANGE" /\ params[p].check_mode
        /\ params[p].state = "present" /\ MatchesThen(p) = {}
        /\ out[p] = [changed |-> TRUE]

\* the listInstanceGroups queries p has issued in this invocation
Queries(p) == {i \in 1..Len(calls[p]) : calls[p][i].api = "listInstanceGroups"}

\* C11: whatever the first call of get_instance_group() returned, a
\* descriptor or None, a repeated call in the same invocation returns the
\* same and issues no further listInstanceGroups query.
C11_LookupCached ==
    \A p \in Procs :
        lookups[p].n >= 2
        => /\ instance_group[p] = lookups[p].first
           /\ Cardinality(Queries(p)) = 1

\* the part of C11 the code keeps: a descriptor found is answered again
\* without a query
C11_FoundIsCached ==
    \A p \in Procs :
        lookups[p].n >= 2 /\ Truthy(lookups[p].first)
        => /\ instance_group[p] = lookups[p].first
           /\ Cardinality(Queries(p)) = 1

\* what the lookup of p found calls for a change
DiffersThen(p) ==
    IF params[p].state = "absent" THEN MatchesThen(p) # {}
    ELSE MatchesThen(p) = {}

\* C12: the decision to mutate rests on the invocation's own lookup alone:
\* not in check mode, when the listing it got calls for a change it issues
\* its create (or delete) call and marks changed, whether or not another
\* invocation has changed the store since that listing, with no second
\* listing; and when the call is accepted it reports changed=true.  So two
\* live present invocations for the same name and scope that both listed
\* before either created both issue a create call.
C12_DecidesOnOwnLookup ==
    \A p \in Procs :
        Decided(p) /\ ~params[p].check_mode /\ DiffersThen(p)
        => /\ Len(calls[p]) = 2
           /\ calls[p][1] =
                [api |-> "listInstanceGroups", args |-> ScopeArgs(params[p])]
           /\ calls[p][2].api = IF params[p].state = "absent"
                                THEN "deleteInstanceGroup"
                                ELSE "createInstanceGroup"
           /\ result[p]["changed"] = TRUE
           /\ pc[p] = "SUCCEEDED" => out[p]["changed"] = TRUE

\* both plays asked for the same absent name, both listed before either
\* created, and both creates went through
C12_Witness ==
    \E p, q \in Procs :
        /\ p # q
        /\ pc[p] = "SUCCEEDED" /\ pc[q] = "SUCCEEDED"
        /\ params[p] = params[q]
        /\ params[p].state = "present" /\ ~params[p].check_mode
        /\ MatchesThen(p) = {} /\ MatchesThen(q) = {}
        /\ calls[p][2].api = "createInstanceGroup"
        /\ calls[q][2].api = "createInstanceGroup"
        /\ interf[p] \/ interf[q]
        /\ Cardinality(MatchesNow(p)) = 2

\* no two groups of one scope carry the same name
UniqueNames ==
    \A i, j \in 1..Len(store) :
        /\ store[i].args = store[j].args
        /\ store[i].group["name"] = store[j].group["name"]
        => i = j

\* C13: from a store with at most one group of any name in a scope,
\* invocations of the module that do not overlap, of any name, state and
\* mode, keep at most one group of any name in the scope.
C13_UniqueNamesKept == UniqueNames

\* a group the module created is found again by a later present run, which
\* creates nothing
C13_Witness ==
    \E p \in Procs :
        /\ pc[p] = "UNCHANGED" /\ params[p].state = "present"
        /\ ~params[p].check_mode
        /\ instance_group[p]["id"] >= FirstId
        /\ instance_group[p]["name"] = params[p].name
        /\ Len(store) > Len(Background)

\* C14: the delete request of a live absent run is the only call after the
\* listing and is keyed by the id of the descriptor the lookup returned.
C14_DeleteKeyedByFoundId ==
    \A p \in Procs :
        \A i \in 1..Len(calls[p]) :
            calls[p][i].api = "deleteInstanceGroup"
            => /\ i = 2 /\ Len(calls[p]) = 2
               /\ MatchesThen(p) # {}
               /\ instance_group[p] = FirstMatch(p)
               /\ calls[p][i].args = [id |-> FirstMatch(p)["id"]]

\* two groups carry the name; the delete names the first of them
C14_Witness ==
    \E p \in Procs :
        /\ pc[p] = "SUCCEEDED" /\ params[p].state = "absent"
        /\ Cardinality(MatchesThen(p)) = 2
        /\ calls[p][2].api = "deleteInstanceGroup"
        /\ Cardinality(MatchesNow(p)) = 1

\* the steps the state machine of the specification draws
DiagramEdges ==
    {<<"START", "LOOKED_UP">>, <<"LOOKED_UP", "UNCHANGED">>,
     <<"LOOKED_UP", "WOULD_CHANGE">>, <<"LOOKED_UP", "MUTATING">>,
     <<"MUTATING", "SUCCEEDED">>, <<"MUTATING", "FAILED">>}

\* a new invocation begins, or is refused for want of the library
Begins(p) ==
    /\ pc[p] \in Terminal \cup {"idle"}
    /\ \/ pc'[p] = "START"
       \/ pc'[p] = "FAILED" /\ ~has_lib_cs

\* what the claim says of the positions and of the ends of an invocation
Outcomes ==
    \A p \in Procs :
        /\ pc[p] = "MUTATING" => ~params[p].check_mode
        /\ pc[p] \in {"START", "LOOKED_UP", "MUTATING"} => out[p] = None
        /\ GotErrorText(p) => pc[p] = "FAILED"
        /\ pc[p] = "FAILED"
           => /\ DOMAIN out[p] = {"failed", "msg"}
              /\ out[p]["failed"] = TRUE
              /\ out[p]["msg"] # <<>>
        /\ pc[p] \in Success
           => "changed" \in DOMAIN out[p] /\ "failed" \notin DOMAIN out[p]

\* C15 as stated: every invocation goes START, LOOKED_UP, then UNCHANGED (or
\* the would-change end of check mode) or MUTATING and from there SUCCEEDED
\* or FAILED, by no other step; MUTATING is never entered in check mode, a
\* failure ends with a message and no result, a success with a result that
\* carries changed.
C15_StateMachine_AsDrawn ==
    /\ []Outcomes
    /\ [][\A p \in Procs :
            pc'[p] # pc[p]
            => Begins(p) \/ <<pc[p], pc'[p]>> \in DiagramEdges]_vars

\* C15 with the step the code adds: an exception of the listing call takes
\* the invocation from START to FAILED; all the rest as stated.
C15_StateMachine ==
    /\ []Outcomes
    /\ [][\A p \in Procs :
            pc'[p] # pc[p]
            => \/ Begins(p)
               \/ <<pc[p], pc'[p]>> \in DiagramEdges \cup {<<"START", "FAILED">>}
         ]_vars

\* one invocation failed in its listing call, the other went through its
\* mutating call
C15_Witness ==
    \E p, q \in Procs :
        /\ pc[p] = "FAILED" /\ Len(calls[p]) = 1
        /\ pc[q] = "SUCCEEDED" /\ Len(calls[q]) = 2

\* C16: get_result() adds to the result exactly those of id, created, name,
\* project, domain, account that the descriptor carries, with the
\* descriptor's values; it leaves out the keys the descriptor lacks, copies
\* no other key, leaves changed as it was, returns the result as it was for
\* the None descriptor, and does not fail.
C16_GetResultProjects ==
    [][\A p \in Procs :
         pc[p] = "RETURNED" /\ pc'[p] # "RETURNED"
         => LET copied == ResultKeys \cap DOMAIN returned[p]
            IN /\ pc'[p] \in Success
               /\ DOMAIN out'[p] = DOMAIN result[p] \cup copied
               /\ \A k \in copied : out'[p][k] = returned[p][k]
               /\ \A k \in DOMAIN result[p] \ copied :
                      out'[p][k] = result[p][k]
               /\ result'[p] = out'[p]
               /\ returned'[p] = returned[p]]_vars

\* a descriptor that lacks some result keys and carries a key that is not
\* one of them has been projected
C16_Witness ==
    \E p \in Procs :
        /\ pc[p] = "SUCCEEDED" /\ calls[p] = <<>>
        /\ DOMAIN returned[p] = {"id", "name", "account", "domainid"}
        /\ DOMAIN out[p] = {"changed", "id", "name", "account"}

\* C17: when the library is missing, no invocation issues a list, create or
\* delete call, the store stays as it was, and every invocation ends as a
\* failure with a message and no result.
C17_NoLibNoCalls ==
    ~has_lib_cs
    => /\ store = Background
       /\ \A p \in Procs :
            /\ calls[p] = <<>>
            /\ pc[p] \in {"idle", "FAILED"}
            /\ pc[p] = "FAILED"
               => /\ DOMAIN out[p] = {"failed", "msg"}
                  /\ out[p]["failed"] = TRUE
                  /\ out[p]["msg"] # <<>>

C17_Witness ==
    /\ ~has_lib_cs
    /\ \A p \in Procs : pc[p] = "FAILED"
    /\ runs >= 3

\* C18: an invocation with state=present never issues deleteInstanceGroup,
\* one with state=absent never issues createInstanceGroup.
C18_CallFitsState ==
    \A p \in Procs :
        \A i \in 1..Len(calls[p]) :
            /\ calls[p][i].api = "deleteInstanceGroup"
               => params[p].state = "absent"
            /\ calls[p][i].api = "createInstanceGroup"
               => params[p].state = "present"

\* a create call and a delete call are both in flight
C18_Witness ==
    \E p, q \in Procs :
        /\ pc[p] = "MUTATING" /\ params[p].state = "present"
        /\ calls[p][2].api = "createInstanceGroup"
        /\ pc[q] = "MUTATING" /\ params[q].state = "absent"
        /\ calls[q][2].api = "deleteInstanceGroup"

====
